---- MODULE Spec2Model ----
(***************************************************************************)
(* Byte-pair-encoding tokenizer (src/tokenizer.py): the pair counter, the  *)
(* greedy merge, the training loop perform_merges, and the codec           *)
(* encode_text / decode_text.                                              *)
(***************************************************************************)
EXTENDS Integers, Sequences, FiniteSets, TLC

(* ------------------------------ bounds --------------------------------- *)
\* longest training corpus, in bytes
MaxLen == 6
\* largest round budget num_merges
MaxMerges == 2
\* longest text handed to encode_text, in characters
MaxTextLen == 3
\* longest token list handed directly to decode_text
MaxTokLen == 2
\* longest token list handed directly to merge
MaxIdsLen == 4

(* -------------------------- program constants -------------------------- *)
START_TOKEN_IDX == 256

\* the characters texts are made of: 'a' (one UTF-8 byte) and U+00E9 (two)
Chars == {97, 233}
\* the byte values of those characters; also the raw training alphabet
Bytes == {97, 169, 195}
\* first composite ids handed to perform_merges
StartIds == {START_TOKEN_IDX, START_TOKEN_IDX + 1}
\* token values handed directly to decode_text
RawTokens == {97, 195, 256, 257}
\* token values handed directly to merge
MergeTokens == {97, 98, 256}

SeqsUpTo(S, n) == UNION {[1..k -> S] : k \in 0..n}

(* ------------------------------ UTF-8 ---------------------------------- *)
\* str.encode('utf-8') of one character (a Unicode scalar value)
Utf8OfChar(c) ==
    IF c < 128 THEN <<c>>
    ELSE IF c < 2048 THEN <<192 + (c \div 64), 128 + (c % 64)>>
    ELSE IF c < 65536
         THEN <<224 + (c \div 4096), 128 + ((c \div 64) % 64), 128 + (c % 64)>>
    ELSE <<240 + (c \div 262144), 128 + ((c \div 4096) % 64),
           128 + ((c \div 64) % 64), 128 + (c % 64)>>

RECURSIVE text_to_tokens(_)
\* list(text.encode('utf-8'))
text_to_tokens(text) ==
    IF text = <<>> THEN <<>>
    ELSE Utf8OfChar(Head(text)) \o text_to_tokens(Tail(text))

IsCont(b) == b >= 128 /\ b <= 191

\* the strict UTF-8 decoder of bytes.decode('utf-8'): the decoded characters,
\* or ok = FALSE (UnicodeDecodeError) at the first ill-formed sequence
RECURSIVE Utf8DecodeFrom(_, _, _)
Utf8DecodeFrom(bs, i, acc) ==
    IF i > Len(bs) THEN [ok |-> TRUE, chars |-> acc]
    ELSE LET b == bs[i]
             n == Len(bs)
         IN IF b < 128 THEN Utf8DecodeFrom(bs, i + 1, Append(acc, b))
            ELSE IF b >= 194 /\ b <= 223 /\ i + 1 <= n /\ IsCont(bs[i + 1])
              THEN Utf8DecodeFrom(bs, i + 2,
                     Append(acc, (b - 192) * 64 + (bs[i + 1] - 128)))
            ELSE IF b >= 224 /\ b <= 239 /\ i + 2 <= n
                    /\ IsCont(bs[i + 1]) /\ IsCont(bs[i + 2])
                    /\ (b = 224 => bs[i + 1] >= 160)
                    /\ (b = 237 => bs[i + 1] <= 159)
              THEN Utf8DecodeFrom(bs, i + 3,
                     Append(acc, (b - 224) * 4096 + (bs[i + 1] - 128) * 64
                                 + (bs[i + 2] - 128)))
            ELSE IF b >= 240 /\ b <= 244 /\ i + 3 <= n
                    /\ IsCont(bs[i + 1]) /\ IsCont(bs[i + 2]) /\ IsCont(bs[i + 3])
                    /\ (b = 240 => bs[i + 1] >= 144)
                    /\ (b = 244 => bs[i + 1] <= 143)
              THEN Utf8DecodeFrom(bs, i + 4,
                     Append(acc, (b - 240) * 262144 + (bs[i + 1] - 128) * 4096
                                 + (bs[i + 2] - 128) * 64 + (bs[i + 3] - 128)))
            ELSE [ok |-> FALSE, chars |-> <<>>]

Utf8Decode(bs) == Utf8DecodeFrom(bs, 1, <<>>)

(* --------------------------- pair counting ----------------------------- *)
\* [tuple(tokens[i:i+2]) for i in range(len(tokens) - 1)]
find_token_pairs(toks) ==
    IF Len(toks) < 2 THEN <<>>
    ELSE [i \in 1..(Len(toks) - 1) |-> <<toks[i], toks[i + 1]>>]

\* a Counter: the keys in insertion order and the count of each key
EmptyCounter == [keys |-> <<>>, cnt |-> <<>>]

KeyIndex(c, p) ==
    IF \E j \in 1..Len(c.keys) : c.keys[j] = p
    THEN CHOOSE j \in 1..Len(c.keys) : c.keys[j] = p
    ELSE 0

\* Counter's update of one element: a new key is inserted last with count 1
CounterAdd(c, p) ==
    LET j == KeyIndex(c, p)
    IN IF j = 0
       THEN [keys |-> Append(c.keys, p), cnt |-> Append(c.cnt, 1)]
       ELSE [keys |-> c.keys, cnt |-> [c.cnt EXCEPT ![j] = @ + 1]]

RECURSIVE CounterFrom(_, _, _)
CounterFrom(pairs, i, c) ==
    IF i > Len(pairs) THEN c
    ELSE CounterFrom(pairs, i + 1, CounterAdd(c, pairs[i]))

\* Counter(token_pairs)
count_pair_frequencies(token_pairs) == CounterFrom(token_pairs, 1, EmptyCounter)

\* a scan that keeps the last item of maximum count
RECURSIVE MaxItemLastFrom(_, _, _)
MaxItemLastFrom(c, i, best) ==
    IF i > Len(c.keys) THEN best
    ELSE MaxItemLastFrom(c, i + 1, IF c.cnt[i] >= c.cnt[best] THEN i ELSE best)

\* max(items, key=count) as heapq.nlargest(1, ...) computes it: the scan
\* keeps the first item whose count no later item exceeds
RECURSIVE MaxItemFrom(_, _, _)
MaxItemFrom(c, i, best) ==
    IF i > Len(c.keys) THEN best
    ELSE MaxItemFrom(c, i + 1, IF c.cnt[i] > c.cnt[best] THEN i ELSE best)

\* pair_counts.most_common(1)[0] of a non-empty Counter: <<pair, count>>
most_common_1(c) ==
    LET b == MaxItemFrom(c, 2, 1) IN <<c.keys[b], c.cnt[b]>>

(* -------------------------------- merge -------------------------------- *)
\* a loop that advances by one after a match
RECURSIVE MergeLoopOverlap(_, _, _, _, _)
MergeLoopOverlap(ids, pair, idx, i, newids) ==
    IF i > Len(ids) THEN newids
    ELSE IF i < Len(ids) /\ ids[i] = pair[1] /\ ids[i + 1] = pair[2]
         THEN MergeLoopOverlap(ids, pair, idx, i + 1, Append(newids, idx))
         ELSE MergeLoopOverlap(ids, pair, idx, i + 1, Append(newids, ids[i]))

RECURSIVE MergeLoop(_, _, _, _, _)
\* the while loop of merge; i is the 1-based scan position
MergeLoop(ids, pair, idx, i, newids) ==
    IF i > Len(ids) THEN newids
    ELSE IF i < Len(ids) /\ ids[i] = pair[1] /\ ids[i + 1] = pair[2]
         THEN MergeLoop(ids, pair, idx, i + 2, Append(newids, idx))
         ELSE MergeLoop(ids, pair, idx, i + 1, Append(newids, ids[i]))

\* a loop whose bound check stops one position early
RECURSIVE MergeLoopShort(_, _, _, _, _)
MergeLoopShort(ids, pair, idx, i, newids) ==
    IF i > Len(ids) THEN newids
    ELSE IF i < Len(ids) - 1 /\ ids[i] = pair[1] /\ ids[i + 1] = pair[2]
         THEN MergeLoopShort(ids, pair, idx, i + 2, Append(newids, idx))
         ELSE MergeLoopShort(ids, pair, idx, i + 1, Append(newids, ids[i]))

merge_short(ids, pair, idx) ==
    IF Len(ids) < 2 THEN ids ELSE MergeLoopShort(ids, pair, idx, 1, <<>>)

\* a loop that replaces the first occurrence only
RECURSIVE MergeLoopFirst(_, _, _, _, _, _)
MergeLoopFirst(ids, pair, idx, i, newids, done) ==
    IF i > Len(ids) THEN newids
    ELSE IF ~done /\ i < Len(ids) /\ ids[i] = pair[1] /\ ids[i + 1] = pair[2]
         THEN MergeLoopFirst(ids, pair, idx, i + 2, Append(newids, idx), TRUE)
         ELSE MergeLoopFirst(ids, pair, idx, i + 1, Append(newids, ids[i]), done)

merge_first_only(ids, pair, idx) ==
    IF Len(ids) < 2 THEN ids ELSE MergeLoopFirst(ids, pair, idx, 1, <<>>, FALSE)

merge(ids, pair, idx) ==
    IF Len(ids) < 2 THEN ids ELSE MergeLoop(ids, pair, idx, 1, <<>>)

(* ------------------------------- codec --------------------------------- *)
RECURSIVE ApplyRulesFrom(_, _, _)
\* for rule in merge_rules: tokens = merge(tokens, rule['pair'], rule['new_token'])
ApplyRulesFrom(toks, rules, k) ==
    IF k > Len(rules) THEN toks
    ELSE ApplyRulesFrom(merge(toks, rules[k].pair, rules[k].new_token), rules, k + 1)

RECURSIVE ApplyRulesBackFrom(_, _, _)
ApplyRulesBackFrom(toks, rules, k) ==
    IF k < 1 THEN toks
    ELSE ApplyRulesBackFrom(merge(toks, rules[k].pair, rules[k].new_token), rules, k - 1)

\* an encoder that replays the rules last to first
encode_text_reversed(txt, rules) ==
    ApplyRulesBackFrom(text_to_tokens(txt), rules, Len(rules))

encode_text(txt, rules) == ApplyRulesFrom(text_to_tokens(txt), rules, 1)

RECURSIVE ExpandLoop(_, _, _, _)
\* the inner while loop of decode_text for one rule
ExpandLoop(toks, rule, i, new_tokens) ==
    IF i > Len(toks) THEN new_tokens
    ELSE IF toks[i] = rule.new_token
         THEN ExpandLoop(toks, rule, i + 1, new_tokens \o rule.pair)
         ELSE ExpandLoop(toks, rule, i + 1, Append(new_tokens, toks[i]))

RECURSIVE ExpandRulesFrom(_, _, _)
\* for rule in reversed(merge_rules): k runs from len(merge_rules) down to 1
ExpandRulesFrom(toks, rules, k) ==
    IF k < 1 THEN toks
    ELSE ExpandRulesFrom(ExpandLoop(toks, rules[k], 1, <<>>), rules, k - 1)

RECURSIVE ExpandRulesUpFrom(_, _, _)
ExpandRulesUpFrom(toks, rules, k) ==
    IF k > Len(rules) THEN toks
    ELSE ExpandRulesUpFrom(ExpandLoop(toks, rules[k], 1, <<>>), rules, k + 1)

\* a decoder that expands the rules in learned order
ExpandAllForward(toks, rules) == ExpandRulesUpFrom(toks, rules, 1)

\* current_tokens of decode_text when its for loop ends
ExpandAll(toks, rules) == ExpandRulesFrom(toks, rules, Len(rules))

\* what a call of decode_text ends in.  raised is "none" when it returns a
\* str: form "decoded" is the decoded characters, form "placeholder" is the
\* string "[Decoding failed. Tokens: ...]" built from the expanded tokens.
\* bytes(current_tokens) raises ValueError for an element outside 0..255,
\* and only UnicodeDecodeError is caught.
decode_text(toks, rules) ==
    LET cur == ExpandAll(toks, rules)
    IN IF \E i \in 1..Len(cur) : cur[i] < 0 \/ cur[i] > 255
       THEN [raised |-> "ValueError", form |-> "none", chars |-> <<>>, tokens |-> <<>>]
       ELSE IF Utf8Decode(cur).ok
            THEN [raised |-> "none", form |-> "decoded",
                  chars |-> Utf8Decode(cur).chars, tokens |-> <<>>]
            ELSE [raised |-> "none", form |-> "placeholder",
                  chars |-> <<>>, tokens |-> cur]

NoOutcome == [raised |-> "none", form |-> "none", chars |-> <<>>, tokens |-> <<>>]

(* ------------------------------- state --------------------------------- *)
VARIABLES
    tokens,           \* perform_merges argument: the training byte sequence
    num_merges,       \* perform_merges argument: the round budget
    start_token_idx,  \* perform_merges argument: the first composite id
    current_tokens,   \* perform_merges local
    next_token_idx,   \* perform_merges local
    merge_rules,      \* perform_merges local: the rules in learned order
    merge_iteration,  \* iterations of the for loop started so far
    result,           \* the tuple perform_merges returned, <<>> before
    text,             \* encode_text argument
    encoded,          \* token list given to decode_text
    decoded,          \* outcome of decode_text
    ids, pair, idx,   \* arguments of a direct call of merge
    newids,           \* its result
    newids2,          \* the result of merging newids again
    pc                \* position of the driver

vars == <<tokens, num_merges, start_token_idx, current_tokens, next_token_idx,
          merge_rules, merge_iteration, result, text, encoded, decoded,
          ids, pair, idx, newids, newids2, pc>>

trainVars == <<tokens, num_merges, start_token_idx, current_tokens,
               next_token_idx, merge_rules, merge_iteration, result>>
codecVars == <<text, encoded, decoded>>
mergeVars == <<ids, pair, idx, newids, newids2>>

(* --------------------------- perform_merges ---------------------------- *)
\* a threshold of three occurrences
BelowThreshold3(count) == count < 3

\* the test of "if most_common_pair[1] < 2: break"
BelowThreshold(count) == count < 2

\* an id that is never advanced
NextTokenIdxStuck(n) == n

\* next_token_idx += 1
NextTokenIdx(n) == n + 1

\* entry of perform_merges: lines 56-58
Init ==
    /\ tokens \in SeqsUpTo(Bytes, MaxLen)
    /\ num_merges \in 0..MaxMerges
    /\ start_token_idx \in StartIds
    /\ current_tokens = tokens
    /\ next_token_idx = start_token_idx
    /\ merge_rules = <<>>
    /\ merge_iteration = 0
    /\ result = <<>>
    /\ text = <<>> /\ encoded = <<>> /\ decoded = NoOutcome
    /\ ids = <<>> /\ pair = <<0, 0>> /\ idx = 0 /\ newids = <<>> /\ newids2 = <<>>
    /\ pc = "loop"

\* return current_tokens, next_token_idx, merge_rules
Return(cur, nxt, rules) ==
    /\ result' = <<cur, nxt, rules>>
    /\ pc' = "trained"

\* range(num_merges) is exhausted: the for loop ends
LoopExhausted ==
    /\ pc = "loop"
    /\ merge_iteration = num_merges
    /\ Return(current_tokens, next_token_idx, merge_rules)
    /\ UNCHANGED <<tokens, num_merges, start_token_idx, current_tokens,
                   next_token_idx, merge_rules, merge_iteration>>
    /\ UNCHANGED <<codecVars, mergeVars>>

\* an iteration that leaves at "if not token_pairs: break"
RoundNoPairs ==
    /\ pc = "loop"
    /\ merge_iteration < num_merges
    /\ find_token_pairs(current_tokens) = <<>>
    /\ merge_iteration' = merge_iteration + 1
    /\ Return(current_tokens, next_token_idx, merge_rules)
    /\ UNCHANGED <<tokens, num_merges, start_token_idx, current_tokens,
                   next_token_idx, merge_rules>>
    /\ UNCHANGED <<codecVars, mergeVars>>

\* an iteration that leaves at "if most_common_pair[1] < 2: break"
RoundBelowThreshold ==
    /\ pc = "loop"
    /\ merge_iteration < num_merges
    /\ find_token_pairs(current_tokens) # <<>>
    /\ LET most_common_pair ==
               most_common_1(count_pair_frequencies(find_token_pairs(current_tokens)))
       IN BelowThreshold(most_common_pair[2])
    /\ merge_iteration' = merge_iteration + 1
    /\ Return(current_tokens, next_token_idx, merge_rules)
    /\ UNCHANGED <<tokens, num_merges, start_token_idx, current_tokens,
                   next_token_idx, merge_rules>>
    /\ UNCHANGED <<codecVars, mergeVars>>

\* an iteration that stores a rule and applies it; it leaves the loop at
\* "if len(current_tokens) <= 1: break" or goes on to the next iteration
RoundMerge ==
    /\ pc = "loop"
    /\ merge_iteration < num_merges
    /\ find_token_pairs(current_tokens) # <<>>
    /\ LET most_common_pair ==
               most_common_1(count_pair_frequencies(find_token_pairs(current_tokens)))
           rule == [pair |-> most_common_pair[1],
                    new_token |-> next_token_idx,
                    count |-> most_common_pair[2]]
           merged == merge(current_tokens, most_common_pair[1], next_token_idx)
       IN /\ ~BelowThreshold(most_common_pair[2])
          /\ merge_rules' = Append(merge_rules, rule)
          /\ current_tokens' = merged
          /\ next_token_idx' = NextTokenIdx(next_token_idx)
          /\ merge_iteration' = merge_iteration + 1
          /\ IF Len(merged) <= 1
             THEN Return(merged, NextTokenIdx(next_token_idx), Append(merge_rules, rule))
             ELSE pc' = "loop" /\ result' = result
    /\ UNCHANGED <<tokens, num_merges, start_token_idx>>
    /\ UNCHANGED <<codecVars, mergeVars>>

(* ------------------------- encode / decode ----------------------------- *)
\* the quick test's encode_text(test_text, merge_rules)
Encode ==
    /\ pc = "trained"
    /\ \E t \in SeqsUpTo(Chars, MaxTextLen) :
          /\ text' = t
          /\ encoded' = encode_text(t, merge_rules)
    /\ pc' = "encoded"
    /\ UNCHANGED <<trainVars, decoded, mergeVars>>

\* the quick test's decode_text(encoded, merge_rules)
Decode ==
    /\ pc = "encoded"
    /\ decoded' = decode_text(encoded, merge_rules)
    /\ pc' = "decoded"
    /\ UNCHANGED <<trainVars, text, encoded, mergeVars>>

\* decode_text called on a token list that did not come from encode_text
DecodeTokens ==
    /\ pc = "trained"
    /\ \E toks \in SeqsUpTo(RawTokens, MaxTokLen) :
          /\ encoded' = toks
          /\ decoded' = decode_text(toks, merge_rules)
    /\ pc' = "decoded_tokens"
    /\ UNCHANGED <<trainVars, text, mergeVars>>

Next ==
    \/ LoopExhausted
    \/ RoundNoPairs
    \/ RoundBelowThreshold
    \/ RoundMerge
    \/ Encode
    \/ Decode
    \/ DecodeTokens

Spec == Init /\ [][Next]_vars

(* ------------------------ direct calls of merge ------------------------ *)
MergeInit ==
    /\ ids \in SeqsUpTo(MergeTokens, MaxIdsLen)
    /\ pair \in MergeTokens \X MergeTokens
    /\ idx \in MergeTokens
    /\ newids = <<>> /\ newids2 = <<>>
    /\ tokens = <<>> /\ num_merges = 0 /\ start_token_idx = START_TOKEN_IDX
    /\ current_tokens = <<>> /\ next_token_idx = START_TOKEN_IDX
    /\ merge_rules = <<>> /\ merge_iteration = 0 /\ result = <<>>
    /\ text = <<>> /\ encoded = <<>> /\ decoded = NoOutcome
    /\ pc = "merge_call"

\* newids = merge(ids, pair, idx)
CallMerge ==
    /\ pc = "merge_call"
    /\ newids' = merge(ids, pair, idx)
    /\ pc' = "merged"
    /\ UNCHANGED <<trainVars, codecVars, ids, pair, idx, newids2>>

\* newids2 = merge(newids, pair, idx)
CallMergeAgain ==
    /\ pc = "merged"
    /\ newids2' = merge(newids, pair, idx)
    /\ pc' = "merged_twice"
    /\ UNCHANGED <<trainVars, codecVars, ids, pair, idx, newids>>

MergeNext ==
    \/ CallMerge
    \/ CallMergeAgain

MergeSpec == MergeInit /\ [][MergeNext]_vars

(* ============================== properties ============================= *)
\* number of adjacent positions of seq that hold the pair p
PairCount(seq, p) ==
    Cardinality({i \in 1..(Len(seq) - 1) : seq[i] = p[1] /\ seq[i + 1] = p[2]})

\* position of the first occurrence of p in seq (0 when there is none)
FirstOcc(seq, p) ==
    IF PairCount(seq, p) = 0 THEN 0
    ELSE CHOOSE i \in 1..(Len(seq) - 1) :
           /\ seq[i] = p[1] /\ seq[i + 1] = p[2]
           /\ \A j \in 1..(i - 1) : ~(seq[j] = p[1] /\ seq[j + 1] = p[2])

PairAt(seq, i) == <<seq[i], seq[i + 1]>>

Trained == pc # "loop" /\ pc # "merge_call" /\ pc # "merged" /\ pc # "merged_twice"

\* C1: decoding what encode_text produced from any text t, with the rules of
\* any training run, expands to exactly the bytes of t and returns t itself.
C1_RoundTrip ==
    pc = "decoded" =>
        /\ ExpandAll(encoded, merge_rules) = text_to_tokens(text)
        /\ decoded.raised = "none" /\ decoded.form = "decoded"
        /\ decoded.chars = text

\* a text other than the corpus, compressed by two nested rules, was decoded
C1_Witness ==
    /\ pc = "decoded"
    /\ text_to_tokens(text) # tokens
    /\ Len(merge_rules) = 2
    /\ \E i \in 1..Len(encoded) : encoded[i] = start_token_idx + 1

\* C2: the rules replay training: at every point of training, applying the
\* rules learned so far, in order, to the corpus bytes gives the current
\* sequence; rules are only ever appended; and encode_text of the corpus
\* text with the returned rules equals the returned sequence.
C2_ReplayState ==
    /\ pc \in {"loop", "trained"} =>
          ApplyRulesFrom(tokens, merge_rules, 1) = current_tokens
    /\ pc = "trained" => result[1] = current_tokens /\ result[3] = merge_rules
    /\ (pc = "encoded" /\ text_to_tokens(text) = tokens) => encoded = result[1]

C2_EncodeReplaysTraining ==
    /\ []C2_ReplayState
    /\ [][SubSeq(merge_rules', 1, Len(merge_rules)) = merge_rules]_vars

\* the corpus text itself was encoded after a run that learned two rules
C2_Witness ==
    /\ pc = "encoded"
    /\ text_to_tokens(text) = tokens
    /\ Len(merge_rules) = 2

\* the expansion decode_text ends its for loop with is not a valid UTF-8
\* byte string
Malformed(toks, rules) ==
    LET cur == ExpandAll(toks, rules)
    IN \/ \E i \in 1..Len(cur) : cur[i] < 0 \/ cur[i] > 255
       \/ ~Utf8Decode(cur).ok

\* C3: decoding a token list whose expansion holds an undefined composite id
\* or is not valid UTF-8 ends in a DecodeError that carries the expanded
\* buffer: no other fault is raised and no string is returned.
C3_DecodeError ==
    (pc = "decoded_tokens" /\ Malformed(encoded, merge_rules)) =>
        /\ decoded.raised = "DecodeError"
        /\ decoded.tokens = ExpandAll(encoded, merge_rules)

\* C4: the i-th rule (from 0) has new_token = start id + i, and the returned
\* next unused id is start id + number of rules.
C4_MonotonicIds ==
    /\ \A i \in 1..Len(merge_rules) :
          merge_rules[i].new_token = start_token_idx + (i - 1)
    /\ next_token_idx = start_token_idx + Len(merge_rules)
    /\ Trained => result[2] = start_token_idx + Len(result[3])

C4_Witness ==
    /\ pc = "trained"
    /\ Len(result[3]) = 2
    /\ result[3][2].new_token = result[3][1].new_token + 1

\* C5: every round that emits a rule leaves the sequence strictly shorter,
\* and the returned sequence is no longer than the input, of equal length
\* exactly when no rule was emitted.
C5_Returned ==
    Trained =>
        /\ Len(result[1]) <= Len(tokens)
        /\ (Len(result[1]) = Len(tokens)) <=> (Len(result[3]) = 0)

C5_Compression ==
    /\ [][Len(merge_rules') > Len(merge_rules)
            => Len(current_tokens') < Len(current_tokens)]_vars
    /\ []C5_Returned

C5_Witness ==
    /\ pc = "trained"
    /\ Len(result[3]) = 2
    /\ Len(result[1]) < Len(tokens)

\* no adjacent pair of seq occurs at two positions
NoPairTwice(seq) ==
    \A i \in 1..(Len(seq) - 1) : PairCount(seq, PairAt(seq, i)) < 2

\* C6: training with a budget >= 1 on a sequence of length >= 2 without a
\* repeated adjacent pair emits no rule, returns the sequence unchanged with
\* next id = start id, and returns the stop reason
\* no_pair_frequency_above_threshold alongside.
C6_StopReason ==
    (pc = "trained" /\ num_merges >= 1 /\ Len(tokens) >= 2 /\ NoPairTwice(tokens)) =>
        /\ result[3] = <<>>
        /\ result[1] = tokens
        /\ result[2] = start_token_idx
        /\ Len(result) >= 4
        /\ result[4] = "no_pair_frequency_above_threshold"

\* C7: training terminates within its budget: every step of the loop
\* returns or starts the next of at most num_merges rounds, and a round
\* emits at most one rule; and when it
\* returns fewer rules than the budget, the returned sequence has fewer than
\* 2 tokens or no pair occurring twice.
C7_Bounded ==
    /\ merge_iteration <= num_merges
    /\ Len(merge_rules) <= merge_iteration
    /\ (pc = "trained" /\ Len(result[3]) < num_merges) =>
          (Len(result[1]) < 2 \/ NoPairTwice(result[1]))

C7_Termination ==
    /\ []C7_Bounded
    /\ [][pc = "loop" =>
            \/ pc' = "trained"
            \/ pc' = "loop" /\ merge_iteration' = merge_iteration + 1]_vars

\* a run that emitted a rule and then stopped short of its budget
C7_Witness ==
    /\ pc = "trained"
    /\ Len(result[3]) = 1
    /\ num_merges = 2
    /\ Len(result[1]) >= 2

\* the scan of the specification: at the head, a match emits idx and drops
\* two tokens, anything else emits the head and drops one
RECURSIVE GreedyScan(_, _, _)
GreedyScan(s, p, t) ==
    IF s = <<>> THEN <<>>
    ELSE IF Len(s) >= 2 /\ s[1] = p[1] /\ s[2] = p[2]
         THEN <<t>> \o GreedyScan(Tail(Tail(s)), p, t)
         ELSE <<Head(s)>> \o GreedyScan(Tail(s), p, t)

\* the number of replacements that scan makes
RECURSIVE GreedyMatches(_, _)
GreedyMatches(s, p) ==
    IF s = <<>> THEN 0
    ELSE IF Len(s) >= 2 /\ s[1] = p[1] /\ s[2] = p[2]
         THEN 1 + GreedyMatches(Tail(Tail(s)), p)
         ELSE GreedyMatches(Tail(s), p)

\* C8: merge is the greedy left-to-right non-overlapping scan; a run of
\* three x under pair (x,x) becomes [idx, x], a run of four becomes
\* [idx, idx]; fewer than 2 tokens come back unchanged; the output is
\* shorter than the input by the number of replacements.
C8_GreedyMerge ==
    pc \in {"merged", "merged_twice"} =>
        /\ newids = GreedyScan(ids, pair, idx)
        /\ Len(newids) = Len(ids) - GreedyMatches(ids, pair)
        /\ Len(ids) < 2 => newids = ids
        /\ \A x \in MergeTokens :
              /\ (ids = <<x, x, x>> /\ pair = <<x, x>>) => newids = <<idx, x>>
              /\ (ids = <<x, x, x, x>> /\ pair = <<x, x>>) => newids = <<idx, idx>>

\* a run of three equal tokens was merged under the pair of that token
C8_Witness ==
    /\ pc = "merged"
    /\ ids = <<97, 97, 97>> /\ pair = <<97, 97>> /\ idx = 256
    /\ newids = <<256, 97>>

\* C9 as stated: for every sequence, pair and idx a second merge changes nothing.
C9_Idempotent ==
    pc = "merged_twice" => newids2 = newids

\* C9 amended: when idx is neither component of the pair, one pass leaves no
\* occurrence of the pair and a second merge changes nothing.
C9_IdempotentFreshIdx ==
    (pc = "merged_twice" /\ idx # pair[1] /\ idx # pair[2]) =>
        /\ PairCount(newids, pair) = 0
        /\ newids2 = newids

\* a first pass that replaced overlapping occurrences, merged again
C9_Witness ==
    /\ pc = "merged_twice"
    /\ idx # pair[1] /\ idx # pair[2]
    /\ PairCount(ids, pair) >= 2
    /\ Len(newids) < Len(ids)
    /\ newids2 = newids

\* C10: the rule a round emits names a pair of maximum adjacent-pair count in
\* the round's sequence, records that count (overlapping positions included),
\* which is at least 2, and every pair that first occurs earlier in the
\* sequence has a strictly smaller count.
C10_Selected(seq, rule) ==
    /\ PairCount(seq, rule.pair) >= 1
    /\ rule.count = PairCount(seq, rule.pair)
    /\ rule.count >= 2
    /\ \A i \in 1..(Len(seq) - 1) : PairCount(seq, PairAt(seq, i)) <= rule.count
    /\ \A i \in 1..(FirstOcc(seq, rule.pair) - 1) :
          PairCount(seq, PairAt(seq, i)) < rule.count

C10_RuleSelection ==
    [][Len(merge_rules') > Len(merge_rules)
         => C10_Selected(current_tokens, merge_rules'[Len(merge_rules')])]_vars

\* a rule was chosen among pairs tied for the maximum count, and the count
\* recorded includes overlapping positions of the chosen pair
C10_Witness ==
    /\ Len(merge_rules) >= 1
    /\ \E i \in 1..(Len(tokens) - 1) :
          /\ PairAt(tokens, i) # merge_rules[1].pair
          /\ PairCount(tokens, PairAt(tokens, i)) = merge_rules[1].count
    /\ \E i \in 1..(Len(tokens) - 2) :
          /\ PairAt(tokens, i) = merge_rules[1].pair
          /\ PairAt(tokens, i + 1) = merge_rules[1].pair

====
